---- MODULE Spec2Model ----
(***************************************************************************)
(* The dashboard script src/main.js of Safesite-dashboard: the live-data   *)
(* poller (refreshData, armed by setInterval) and the detection button     *)
(* (runAI click handler), as a state machine over the DOM text nodes and   *)
(* the HTTP requests in flight.                                            *)
(*                                                                         *)
(* Each await of the source is one suspension point, so each handler is    *)
(* cut into the steps between its awaits: issuing the fetch, the fetch     *)
(* promise settling, the res.json() promise settling.  Everything between  *)
(* two awaits runs to completion on the single browser thread and is one   *)
(* action.                                                                 *)
(*                                                                         *)
(* The theme toggle of the landing script src/sup/main.js is a second,     *)
(* independent state machine over its own variable.                        *)
(***************************************************************************)
EXTENDS Integers, Sequences, FiniteSets, TLC

VARIABLES pc, page, text, polls, ticks, runs, clicks, escaped, log, theme

\* log is a history variable: the poll responses rendered so far, in the
\* order they were rendered.  The program keeps no such record.
vars == <<pc, page, text, polls, ticks, runs, clicks, escaped, log, theme>>

\* The variables of the dashboard script.
dashboard == <<pc, page, text, polls, ticks, runs, clicks, escaped, log>>

(***************************************************************************)
(* Bounds of the model.                                                    *)
(***************************************************************************)
MaxTicks == 1

MaxClicks == 2

MaxToggles == 4

(***************************************************************************)
(* The host page: the element ids the script looks up.                     *)
(***************************************************************************)
DisplayIds == {"aiStatus", "liveData", "temp", "gas", "helmet"}

ElementIds == {"runAI"} \cup DisplayIds

\* The pages the script is loaded into: the full dashboard, and the
\* dashboard with any one of the looked-up elements missing.
Pages == {ElementIds} \cup {ElementIds \ {e} : e \in ElementIds}

\* Text an element holds before the script writes it.
InitialText == ""

(***************************************************************************)
(* The literal texts of the source.  The pictographs of the source are     *)
(* written as their code points.                                           *)
(***************************************************************************)
BusyText == "U+1F680 Running AI Detection..."

CannotConnectText == "U+26A0 Cannot connect to backend."

NoLiveDataText == "No live data available."

(***************************************************************************)
(* JavaScript values as they come out of res.json().  Numbers are held in  *)
(* tenths (362 is 36.2), which covers the readings of the backend.         *)
(***************************************************************************)
Undefined == [t |-> "undefined"]

Null == [t |-> "null"]

Num(n) == [t |-> "num", n |-> n]

Str(s) == [t |-> "str", s |-> s]

Obj(f) == [t |-> "obj", f |-> f]

\* Number::toString on a number with at most one decimal digit: no
\* trailing ".0", a leading "-" for negatives.
NumToString(n) ==
  LET a == IF n < 0 THEN 0 - n ELSE n
      w == a \div 10
      f == a % 10
  IN  (IF n < 0 THEN "-" ELSE "") \o ToString(w)
        \o (IF f = 0 THEN "" ELSE "." \o ToString(f))

\* ToString of a value inside a template literal.
JSToString(v) ==
  CASE v.t = "num" -> NumToString(v.n)
    [] v.t = "str" -> v.s
    [] v.t = "undefined" -> "undefined"
    [] v.t = "null" -> "null"
    [] v.t = "obj" -> "[object Object]"

\* v.name throws a TypeError when v is null or undefined.
Throws(v) == v.t \in {"null", "undefined"}

\* v.name when it does not throw: a missing property is undefined.
GetProp(v, name) ==
  IF v.t = "obj" /\ name \in DOMAIN v.f THEN v.f[name] ELSE Undefined

\* v === "s"
StrictEqualsStr(v, s) == v.t = "str" /\ v.s = s

(***************************************************************************)
(* What the backend can answer.  The fetch promise rejects on a network    *)
(* failure and resolves, once the headers are in, for any HTTP status; the *)
(* res.json() promise reads the body and rejects when it is not JSON.      *)
(***************************************************************************)
NetworkError == [kind |-> "networkError"]

Malformed == [t |-> "malformed"]

HttpStatuses == {200, 500}

\* The response the fetch promise resolves with: the body is still to come.
Headers(st) == [kind |-> "headers", status |-> st]

\* The readings the backend reports, in tenths.
Readings ==
  { [temperature |-> 362, gas_level |-> 1200, helmet_violations |-> 0],
    [temperature |-> 0 - 5, gas_level |-> 455, helmet_violations |-> 30] }

ReadingBody(r) ==
  Obj([temperature |-> Num(r.temperature),
       gas_level |-> Num(r.gas_level),
       helmet_violations |-> Num(r.helmet_violations)])

\* An object without the reading's fields, such as an error body.
EmptyObject == Obj([k \in {} |-> Undefined])

PollBodies == {Malformed, Null, EmptyObject} \cup {ReadingBody(r) : r \in Readings}

FetchOutcomes == {NetworkError} \cup {Headers(st) : st \in HttpStatuses}

\* The click handler never reads the HTTP status of /run_ai: one status
\* stands for all of them.
RunFetchOutcomes == {NetworkError, Headers(200)}

Violations == {0, 30}

Messages == {"camera offline"}

SuccessBody(v) ==
  Obj([status |-> Str("success"),
       data |-> Obj([helmet_violations |-> Num(v)])])

\* Statuses other than "success"; === is case-sensitive.
OtherStatuses == {"error", "Success"}

ErrorBody(st, m) == Obj([status |-> Str(st), message |-> Str(m)])

\* Unexpected shapes: success without data, an error without message.
SuccessNoData == Obj([status |-> Str("success")])

ErrorNoMessage == Obj([status |-> Str("error")])

RunBodies ==
  {Malformed, Null, SuccessNoData, ErrorNoMessage}
    \cup {SuccessBody(v) : v \in Violations}
    \cup {ErrorBody(st, m) : st \in OtherStatuses, m \in Messages}

(***************************************************************************)
(* Requests in flight.  A request is awaiting its fetch promise, awaiting  *)
(* its res.json() promise, or handled.                                     *)
(***************************************************************************)
Fetching == [stage |-> "fetch", status |-> 0]

Parsing(st) == [stage |-> "json", status |-> st]

Done == [stage |-> "done", status |-> 0]

(***************************************************************************)
(* Writing the DOM.  A handle is null when the page has no such element,   *)
(* and el.textContent = v on a null handle throws a TypeError.  A run of   *)
(* statements is the pair of the text it has written so far and whether it *)
(* has thrown; once it has thrown, the remaining statements are skipped.   *)
(***************************************************************************)
Running(txt) == [text |-> txt, threw |-> FALSE]

Thrown(txt) == [text |-> txt, threw |-> TRUE]

\* el.textContent = v
SetText(s, el, v) ==
  IF s.threw THEN s
  ELSE IF el \in DOMAIN s.text
       THEN Running([s.text EXCEPT ![el] = v])
       ELSE Thrown(s.text)

\* The combined line of liveData.
LiveLine(data) ==
  "U+1F321 Temp: " \o JSToString(GetProp(data, "temperature")) \o " °C"
    \o " | U+1F9EA Gas: " \o JSToString(GetProp(data, "gas_level")) \o " ppm"
    \o " | U+26D1 Helmet Violations: "
    \o JSToString(GetProp(data, "helmet_violations"))

\* TempText without the unit suffix.
TempTextNoUnit(data) == JSToString(GetProp(data, "temperature"))

TempText(data) == JSToString(GetProp(data, "temperature")) \o " °C"

GasText(data) == JSToString(GetProp(data, "gas_level")) \o " ppm"

HelmetText(data) == JSToString(GetProp(data, "helmet_violations"))

\* A try block that stops after liveData and temp, as if it were suspended
\* between its writes.
RenderReadingInParts(txt, data) ==
  IF Throws(data) THEN Thrown(txt)
  ELSE SetText(SetText(Running(txt), "liveData", LiveLine(data)),
               "temp", TempText(data))

\* A try block that merges: temp keeps the value it already shows.
RenderReadingMerging(txt, data) ==
  IF Throws(data) THEN Thrown(txt)
  ELSE LET s1 == SetText(Running(txt), "liveData", LiveLine(data))
           s2 == IF "temp" \in DOMAIN txt /\ txt["temp"] # InitialText
                 THEN s1 ELSE SetText(s1, "temp", TempText(data))
           s3 == SetText(s2, "gas", GasText(data))
       IN  SetText(s3, "helmet", HelmetText(data))

\* The statements of refreshData's try block after the two awaits.
RenderReading(txt, data) ==
  IF Throws(data) THEN Thrown(txt)
  ELSE LET s1 == SetText(Running(txt), "liveData", LiveLine(data))
           s2 == SetText(s1, "temp", TempText(data))
           s3 == SetText(s2, "gas", GasText(data))
       IN  SetText(s3, "helmet", HelmetText(data))

\* refreshData's catch block.
PollCatch(txt) == SetText(Running(txt), "liveData", NoLiveDataText)

\* refreshData once res.json() has resolved with data: the try block, and
\* the catch block when it throws.
PollRender(txt, data) ==
  LET s == RenderReading(txt, data)
  IN  IF s.threw THEN PollCatch(s.text) ELSE s

\* The try block ran to its end: the reading of data is on the page.
Rendered(txt, data) == data # Malformed /\ ~RenderReading(txt, data).threw

\* An entry of the history: request id rendered data.
Entry(id, data) == [id |-> id, data |-> data]

\* SuccessText without the count.
SuccessTextNoCount(violations) == "U+2705 Detection Complete!"

SuccessText(violations) ==
  "U+2705 Detection Complete! Helmet Violations: " \o JSToString(violations)

\* ErrorText that shows the status instead of the message.
ErrorTextGeneric(message) == "U+274C Error: error"

ErrorText(message) == "U+274C Error: " \o JSToString(message)

\* The statements of the click handler's try block after the two awaits.
ShowResult(txt, data) ==
  IF Throws(data) THEN Thrown(txt)
  ELSE IF StrictEqualsStr(GetProp(data, "status"), "success")
       THEN IF Throws(GetProp(data, "data")) THEN Thrown(txt)
            ELSE SetText(Running(txt), "aiStatus",
                   SuccessText(GetProp(GetProp(data, "data"),
                                       "helmet_violations")))
       ELSE SetText(Running(txt), "aiStatus",
                    ErrorText(GetProp(data, "message")))

\* A catch block that swallows the error.
RunCatchSilent(txt) == Running(txt)

\* The click handler's catch block.
RunCatch(txt) == SetText(Running(txt), "aiStatus", CannotConnectText)

\* A handler without the catch block.
RunRenderUncaught(txt, data) == ShowResult(txt, data)

RunRender(txt, data) ==
  LET s == ShowResult(txt, data)
  IN  IF s.threw THEN RunCatch(s.text) ELSE s

\* An async function whose body throws outside any try rejects its
\* promise; nothing handles the rejection.
Escapes(s, handler) == IF s.threw THEN escaped \cup {handler} ELSE escaped

(***************************************************************************)
(* The theme of the landing script.  localStorage holds null, "" or a      *)
(* string under "theme"; the body has the class dark or not; the toggle,   *)
(* when the page has one, shows an icon.                                   *)
(***************************************************************************)
NoItem == "null"

StoredValues == {NoItem, "", "dark", "light"}

SunIcon == "U+2600"

MoonIcon == "U+1F319"

\* What the markup can show in the toggle before the script runs.
InitialIcons == {InitialText, MoonIcon, SunIcon}

\* !localStorage.getItem("theme")
Falsy(v) == v \in {NoItem, ""}

\* after is a history field: class, stored value and icon as each click
\* left them.  The program keeps no such record.
ThemeStates ==
  [pc : {"loading"}, toggle : BOOLEAN, stored : StoredValues,
   prefersDark : BOOLEAN, dark : BOOLEAN, icon : InitialIcons, toggles : {0},
   after : {<<>>}]

\* The landing page before its script runs.
ThemeInitial ==
  {t \in ThemeStates : ~t.toggle => t.icon = InitialText}

\* The theme of a page the landing script is not part of.
ThemeOff ==
  [pc |-> "loading", toggle |-> FALSE, stored |-> NoItem,
   prefersDark |-> FALSE, dark |-> FALSE, icon |-> InitialText, toggles |-> 0,
   after |-> <<>>]

\* The condition under which the script starts dark.
StartsDark(t) == t.stored = "dark" \/ (Falsy(t.stored) /\ t.prefersDark)

\* The top level of the script: the stored or preferred theme is applied,
\* and the click listener is registered when the page has a toggle.
ThemeLoad ==
  /\ theme.pc = "loading"
  /\ theme' = [theme EXCEPT
                 !.pc = "ready",
                 !.dark = theme.dark \/ StartsDark(theme),
                 !.icon = IF StartsDark(theme) /\ theme.toggle
                          THEN SunIcon ELSE theme.icon]
  /\ UNCHANGED dashboard

\* body.classList.toggle("dark")
ToggleClass(d) == ~d

\* What a click leaves: the class, the stored value, the icon.
Left(d, st, ic) == [dark |-> d, stored |-> st, icon |-> ic]

\* A handler that reads the class before it flips it.
ThemeClickStale ==
  /\ theme.pc = "ready"
  /\ theme.toggle
  /\ theme.toggles < MaxToggles
  /\ LET d == ToggleClass(theme.dark)
         st == IF theme.dark THEN "dark" ELSE "light"
         ic == IF theme.dark THEN SunIcon ELSE MoonIcon
     IN  theme' = [theme EXCEPT
                     !.dark = d,
                     !.stored = st,
                     !.icon = ic,
                     !.toggles = theme.toggles + 1,
                     !.after = Append(theme.after, Left(d, st, ic))]
  /\ UNCHANGED dashboard

\* A click on the toggle: the class is flipped, then stored value and icon
\* are set from the class.
ThemeClick ==
  /\ theme.pc = "ready"
  /\ theme.toggle
  /\ theme.toggles < MaxToggles
  /\ LET d == ToggleClass(theme.dark)
         st == IF d THEN "dark" ELSE "light"
         ic == IF d THEN SunIcon ELSE MoonIcon
     IN  theme' = [theme EXCEPT
                     !.dark = d,
                     !.stored = st,
                     !.icon = ic,
                     !.toggles = theme.toggles + 1,
                     !.after = Append(theme.after, Left(d, st, ic))]
  /\ UNCHANGED dashboard

ThemeInit ==
  /\ theme \in ThemeInitial
  /\ pc = "loading"
  /\ page = ElementIds
  /\ text = [e \in DisplayIds |-> InitialText]
  /\ polls = <<>>
  /\ ticks = 0
  /\ runs = <<>>
  /\ clicks = 0
  /\ escaped = {}
  /\ log = <<>>

ThemeNext == ThemeLoad \/ ThemeClick

SpecTheme == ThemeInit /\ [][ThemeNext]_vars

(***************************************************************************)
(* The state before DOMContentLoaded: the page is parsed, each element it  *)
(* has holds its initial text, nothing has been requested.                 *)
(***************************************************************************)
Init ==
  /\ pc = "loading"
  /\ page \in Pages
  /\ text = [e \in page \cap DisplayIds |-> InitialText]
  /\ polls = <<>>
  /\ ticks = 0
  /\ runs = <<>>
  /\ clicks = 0
  /\ escaped = {}
  /\ log = <<>>
  /\ theme = ThemeOff

\* refreshData that skips the fetch while an earlier one is in flight.
IssuePollUnlessPending ==
  polls' = IF \E i \in DOMAIN polls : polls[i].stage # "done"
           THEN polls ELSE Append(polls, Fetching)

\* refreshData that gives up once the placeholder is shown.
IssuePollUnlessFailed ==
  polls' = IF "liveData" \in DOMAIN text /\ text["liveData"] = NoLiveDataText
           THEN polls ELSE Append(polls, Fetching)

\* refreshData up to its first await: the fetch of /get_data is issued.
IssuePoll == polls' = Append(polls, Fetching)

\* The DOMContentLoaded handler: the lookups, the click listener when the
\* button exists, setInterval, and the first call of refreshData.
DOMContentLoaded ==
  /\ pc = "loading"
  /\ pc' = "ready"
  /\ IssuePoll
  /\ UNCHANGED <<page, text, ticks, runs, clicks, escaped, log, theme>>

\* A tick of the interval timer calls refreshData.
Tick ==
  /\ pc = "ready"
  /\ ticks < MaxTicks
  /\ ticks' = ticks + 1
  /\ IssuePoll
  /\ UNCHANGED <<pc, page, text, runs, clicks, escaped, log, theme>>

\* await fetch(/get_data) settles: rejected, the catch block runs;
\* resolved, res.json() is awaited.
PollFetchSettles(i, out) ==
  /\ polls[i].stage = "fetch"
  /\ IF out = NetworkError
     THEN LET s == PollCatch(text)
          IN  /\ text' = s.text
              /\ escaped' = Escapes(s, "refreshData")
              /\ polls' = [polls EXCEPT ![i] = Done]
     ELSE /\ polls' = [polls EXCEPT ![i] = Parsing(out.status)]
          /\ UNCHANGED <<text, escaped>>
  /\ UNCHANGED <<pc, page, ticks, runs, clicks, log, theme>>

\* A handler that drops the response of a request once a later request
\* has been rendered.
PollJsonSettlesNewestOnly(i, body) ==
  /\ polls[i].stage = "json"
  /\ IF \E a \in DOMAIN log : log[a].id > i
     THEN UNCHANGED <<text, escaped, log>>
     ELSE LET s == IF body = Malformed THEN PollCatch(text)
                   ELSE PollRender(text, body)
          IN  /\ text' = s.text
              /\ escaped' = Escapes(s, "refreshData")
              /\ log' = IF Rendered(text, body)
                        THEN Append(log, Entry(i, body)) ELSE log
  /\ polls' = [polls EXCEPT ![i] = Done]
  /\ UNCHANGED <<pc, page, ticks, runs, clicks, theme>>

\* await res.json() settles: rejected on a body that is not JSON, the
\* catch block runs; resolved, the rest of the try block runs.
PollJsonSettles(i, body) ==
  /\ polls[i].stage = "json"
  /\ LET s == IF body = Malformed THEN PollCatch(text)
              ELSE PollRender(text, body)
     IN  /\ text' = s.text
         /\ escaped' = Escapes(s, "refreshData")
  /\ polls' = [polls EXCEPT ![i] = Done]
  /\ log' = IF Rendered(text, body) THEN Append(log, Entry(i, body)) ELSE log
  /\ UNCHANGED <<pc, page, ticks, runs, clicks, theme>>

\* The requests of rs that have not been handled.
InFlight(rs) == {i \in DOMAIN rs : rs[i].stage # "done"}

\* A button that ignores clicks while a request is in flight.
ClickUnlessBusy ==
  /\ pc = "ready"
  /\ "runAI" \in page
  /\ clicks < MaxClicks
  /\ InFlight(runs) = {}
  /\ clicks' = clicks + 1
  /\ LET s == SetText(Running(text), "aiStatus", BusyText)
     IN  /\ text' = s.text
         /\ escaped' = Escapes(s, "click")
         /\ runs' = IF s.threw THEN runs ELSE Append(runs, Fetching)
  /\ UNCHANGED <<pc, page, polls, ticks, log, theme>>

\* A click on the button, up to the handler's first await: the busy text
\* (outside the try), then the fetch of /run_ai.
Click ==
  /\ pc = "ready"
  /\ "runAI" \in page
  /\ clicks < MaxClicks
  /\ clicks' = clicks + 1
  /\ LET s == SetText(Running(text), "aiStatus", BusyText)
     IN  /\ text' = s.text
         /\ escaped' = Escapes(s, "click")
         /\ runs' = IF s.threw THEN runs ELSE Append(runs, Fetching)
  /\ UNCHANGED <<pc, page, polls, ticks, log, theme>>

\* await fetch(/run_ai) settles.
RunFetchSettles(i, out) ==
  /\ runs[i].stage = "fetch"
  /\ IF out = NetworkError
     THEN LET s == RunCatch(text)
          IN  /\ text' = s.text
              /\ escaped' = Escapes(s, "click")
              /\ runs' = [runs EXCEPT ![i] = Done]
     ELSE /\ runs' = [runs EXCEPT ![i] = Parsing(out.status)]
          /\ UNCHANGED <<text, escaped>>
  /\ UNCHANGED <<pc, page, polls, ticks, clicks, log, theme>>

\* await res.json() of /run_ai settles.
RunJsonSettles(i, body) ==
  /\ runs[i].stage = "json"
  /\ LET s == IF body = Malformed THEN RunCatch(text)
              ELSE RunRender(text, body)
     IN  /\ text' = s.text
         /\ escaped' = Escapes(s, "click")
  /\ runs' = [runs EXCEPT ![i] = Done]
  /\ UNCHANGED <<pc, page, polls, ticks, clicks, log, theme>>

Next ==
  \/ DOMContentLoaded
  \/ Tick
  \/ \E i \in DOMAIN polls : \E out \in FetchOutcomes : PollFetchSettles(i, out)
  \/ \E i \in DOMAIN polls : \E body \in PollBodies : PollJsonSettles(i, body)
  \/ Click
  \/ \E i \in DOMAIN runs : \E out \in RunFetchOutcomes : RunFetchSettles(i, out)
  \/ \E i \in DOMAIN runs : \E body \in RunBodies : RunJsonSettles(i, body)

Spec == Init /\ [][Next]_vars

(***************************************************************************)
(* The dashboard with a user who never has to stop clicking.  Once the     *)
(* click counter is at its bound it stays there, and a further click takes *)
(* the place of a request that has been handled, which keeps the requests  *)
(* finite.  Every request is answered in the end: the two promises of a    *)
(* request in flight eventually settle.  The interval timer is left out:   *)
(* the poller and the button share no element, and the poll of the load    *)
(* stands for the others.                                                  *)
(***************************************************************************)
ClickAgain(i) ==
  /\ pc = "ready"
  /\ "runAI" \in page
  /\ clicks = MaxClicks
  /\ runs[i].stage = "done"
  /\ LET s == SetText(Running(text), "aiStatus", BusyText)
     IN  /\ text' = s.text
         /\ escaped' = Escapes(s, "click")
         /\ runs' = IF s.threw THEN runs ELSE [runs EXCEPT ![i] = Fetching]
  /\ UNCHANGED <<pc, page, polls, ticks, clicks, log, theme>>

NextClicking ==
  \/ DOMContentLoaded
  \/ \E i \in DOMAIN polls : \E out \in FetchOutcomes : PollFetchSettles(i, out)
  \/ \E i \in DOMAIN polls : \E body \in PollBodies : PollJsonSettles(i, body)
  \/ Click
  \/ \E i \in DOMAIN runs : \E out \in RunFetchOutcomes : RunFetchSettles(i, out)
  \/ \E i \in DOMAIN runs : \E body \in RunBodies : RunJsonSettles(i, body)
  \/ \E i \in DOMAIN runs : ClickAgain(i)

\* Request i is answered.
RunSettles(i) ==
  /\ i \in DOMAIN runs
  /\ \/ \E out \in RunFetchOutcomes : RunFetchSettles(i, out)
     \/ \E body \in RunBodies : RunJsonSettles(i, body)

EveryRequestSettles == \A i \in 1..MaxClicks : WF_vars(RunSettles(i))

SpecClicking == Init /\ [][NextClicking]_vars /\ EveryRequestSettles

TypeOK ==
  /\ pc \in {"loading", "ready"}
  /\ page \in Pages
  /\ DOMAIN text = page \cap DisplayIds
  /\ ticks \in 0..MaxTicks
  /\ clicks \in 0..MaxClicks
  /\ escaped \subseteq {"refreshData", "click"}

(***************************************************************************)
(* The texts the dashboard is expected to show, written out for the        *)
(* readings, counts and messages of the model.                             *)
(***************************************************************************)
Reading1 == [temperature |-> 362, gas_level |-> 1200, helmet_violations |-> 0]

Reading2 == [temperature |-> 0 - 5, gas_level |-> 455, helmet_violations |-> 30]

ExpectedTemp(r) == IF r = Reading1 THEN "36.2 °C" ELSE "-0.5 °C"

ExpectedGas(r) == IF r = Reading1 THEN "120 ppm" ELSE "45.5 ppm"

ExpectedHelmet(r) == IF r = Reading1 THEN "0" ELSE "3"

ExpectedLive(r) ==
  IF r = Reading1
  THEN "U+1F321 Temp: 36.2 °C | U+1F9EA Gas: 120 ppm | U+26D1 Helmet Violations: 0"
  ELSE "U+1F321 Temp: -0.5 °C | U+1F9EA Gas: 45.5 ppm | U+26D1 Helmet Violations: 3"

ReadingIds == {"liveData", "temp", "gas", "helmet"}

\* The page has the four elements a reading is rendered into.
HasReadingElements == ReadingIds \subseteq DOMAIN text

\* The four elements show reading r.
Shows(txt, r) ==
  /\ txt["temp"] = ExpectedTemp(r)
  /\ txt["gas"] = ExpectedGas(r)
  /\ txt["helmet"] = ExpectedHelmet(r)
  /\ txt["liveData"] = ExpectedLive(r)

\* A poll step that ends request i in failure as the dashboard's contract
\* counts it: a network error, a response that is not 200, or a body that
\* is not JSON.
PollFails(i) ==
  \/ PollFetchSettles(i, NetworkError)
  \/ \E body \in PollBodies :
       /\ polls[i].status # 200 \/ body = Malformed
       /\ PollJsonSettles(i, body)

\* C1: on a page that has liveData, every failure of a poll (network
\* error, non-200 response, body that is not JSON) leaves liveData as
\* exactly "No live data available."; a non-200 response with a JSON body
\* is among them.
C1_EveryFailureShowsPlaceholder ==
  [][\A i \in DOMAIN polls :
       ("liveData" \in DOMAIN text /\ PollFails(i))
         => text'["liveData"] = "No live data available."]_vars

\* C2: on a page that has liveData, temp, gas and helmet, handling a
\* successful poll response (HTTP 200, a JSON body carrying a reading)
\* leaves temp as "t °C", gas as "g ppm", helmet as "h" and liveData as the
\* combined line of the same three values.
C2_SuccessRendersWithUnits ==
  [][\A i \in DOMAIN polls : \A r \in Readings :
       (/\ HasReadingElements
        /\ polls[i].status = 200
        /\ PollJsonSettles(i, ReadingBody(r)))
         => Shows(text', r)]_vars

\* A successful poll has been rendered: every poll so far is handled and
\* the four elements show the second reading.
C2_Witness ==
  /\ HasReadingElements
  /\ Len(polls) > 0
  /\ \A i \in DOMAIN polls : polls[i].stage = "done"
  /\ Shows(text, Reading2)

\* C3: on a page that has the four reading elements, a poll that fails
\* leaves temp, gas and helmet as they were: only liveData changes.
C3_FailureLeavesSecondary ==
  [][\A i \in DOMAIN polls :
       (HasReadingElements /\ PollFails(i))
         => \A e \in {"temp", "gas", "helmet"} : text'[e] = text[e]]_vars

\* C4: nothing is requested before DOMContentLoaded and no tick comes
\* before it; from then on the requests issued are the ticks plus one, and
\* the timer can always tick again (up to the bound of the model).
C4_PollOnLoadAndEveryTick ==
  /\ pc = "loading" => ticks = 0 /\ polls = <<>>
  /\ pc = "ready" => Len(polls) = ticks + 1
  /\ pc = "ready" /\ ticks < MaxTicks => ENABLED Tick

\* The timer has ticked as often as the model lets it, with requests of
\* earlier ticks still in flight.
C4_Witness ==
  /\ ticks = MaxTicks
  /\ Len(polls) = MaxTicks + 1
  /\ \A i \in DOMAIN polls : polls[i].stage = "fetch"

\* The placeholder is all the page has shown of its polls: each handled
\* poll has failed.
OnlyFailuresSoFar ==
  /\ HasReadingElements
  /\ text["liveData"] = NoLiveDataText
  /\ text["temp"] = InitialText

\* C5: failures change nothing about polling.  While the placeholder is
\* shown the timer can still tick, a tick then issues one more request,
\* and a successful response handled then is rendered in full.
C5_PollingSurvivesFailures ==
  /\ [](pc = "ready" /\ ticks < MaxTicks /\ OnlyFailuresSoFar => ENABLED Tick)
  /\ [][(OnlyFailuresSoFar /\ ticks' = ticks + 1)
          => polls' = Append(polls, Fetching)]_vars
  /\ [][\A i \in DOMAIN polls : \A r \in Readings :
          (/\ OnlyFailuresSoFar
           /\ polls[i].status = 200
           /\ PollJsonSettles(i, ReadingBody(r)))
            => Shows(text', r)]_vars

\* Every earlier poll has failed and the request of the last tick is on
\* its way, answered with a 200.
C5_Witness ==
  /\ OnlyFailuresSoFar
  /\ ticks = MaxTicks
  /\ \A i \in 1..(Len(polls) - 1) : polls[i].stage = "done"
  /\ polls[Len(polls)] = Parsing(200)

\* C6: a click writes the busy text and issues the request in one step, so
\* the busy text is shown for as long as no /run_ai response has been
\* handled; a response {status: "success", data: {helmet_violations: v}}
\* leaves the status as "Detection Complete! Helmet Violations: v".
C6_BusyThenSuccess ==
  /\ []((runs # <<>> /\ \A i \in DOMAIN runs : runs[i].stage # "done")
          => text["aiStatus"] = "U+1F680 Running AI Detection...")
  /\ [][clicks' = clicks + 1 /\ "aiStatus" \in DOMAIN text
          => /\ text'["aiStatus"] = "U+1F680 Running AI Detection..."
             /\ runs' = Append(runs, Fetching)]_vars
  /\ [][\A i \in DOMAIN runs :
          /\ RunJsonSettles(i, SuccessBody(30))
               => text'["aiStatus"]
                    = "U+2705 Detection Complete! Helmet Violations: 3"
          /\ RunJsonSettles(i, SuccessBody(0))
               => text'["aiStatus"]
                    = "U+2705 Detection Complete! Helmet Violations: 0"]_vars

\* One click, answered with three violations.
C6_Witness ==
  /\ clicks = 1
  /\ runs = <<Done>>
  /\ text["aiStatus"] = "U+2705 Detection Complete! Helmet Violations: 3"

\* C7: a /run_ai response whose status is not "success" and whose message
\* is m leaves the status as "Error: m".
C7_ErrorShowsMessage ==
  [][\A i \in DOMAIN runs : \A st \in OtherStatuses : \A m \in Messages :
       RunJsonSettles(i, ErrorBody(st, m))
         => text'["aiStatus"] = "U+274C Error: " \o m]_vars

\* One click, answered with the error "camera offline".
C7_Witness ==
  /\ clicks = 1
  /\ runs = <<Done>>
  /\ text["aiStatus"] = "U+274C Error: camera offline"

\* The texts the status shows for an answer of the backend.
AnswerTexts ==
  {SuccessText(Num(v)) : v \in Violations}
    \cup {ErrorText(Str(m)) : m \in Messages}
    \cup {SuccessText(Undefined), ErrorText(Undefined)}

\* C8: a network failure of the /run_ai request leaves the status as
\* "Cannot connect to backend.", which is none of the texts shown for an
\* answer of the backend.
C8_NetworkFailureShowsCannotConnect ==
  /\ []("U+26A0 Cannot connect to backend." \notin AnswerTexts)
  /\ [][\A i \in DOMAIN runs :
          RunFetchSettles(i, NetworkError)
            => text'["aiStatus"] = "U+26A0 Cannot connect to backend."]_vars

\* One click, and the backend could not be reached or understood.
C8_Witness ==
  /\ clicks = 1
  /\ runs = <<Done>>
  /\ text["aiStatus"] = "U+26A0 Cannot connect to backend."

\* A step that handles an error of one of the three kinds: a network
\* failure, a non-success status, a malformed or unexpected body.
HandlesPollError(i) ==
  \/ PollFetchSettles(i, NetworkError)
  \/ PollJsonSettles(i, Malformed)
  \/ PollJsonSettles(i, Null)

HandlesRunError(i) ==
  \/ RunFetchSettles(i, NetworkError)
  \/ \E body \in RunBodies \ {SuccessBody(v) : v \in Violations} :
       RunJsonSettles(i, body)

\* C9: every error of the three kinds ends as a text in a display
\* element, and the promise of neither refreshData nor the click handler
\* is rejected.
C9_NoErrorEscapes ==
  /\ [][\A i \in DOMAIN polls :
          HandlesPollError(i)
            => /\ escaped' = {}
               /\ "liveData" \in DOMAIN text
               /\ text'["liveData"] = NoLiveDataText]_vars
  /\ [][\A i \in DOMAIN runs :
          HandlesRunError(i)
            => /\ escaped' = {}
               /\ text'["aiStatus"]
                    \in {CannotConnectText, ErrorText(Undefined)}
                          \cup {ErrorText(Str(m)) : m \in Messages}]_vars

\* What element e shows of reading r.
Expected(e, r) ==
  CASE e = "liveData" -> ExpectedLive(r)
    [] e = "temp" -> ExpectedTemp(r)
    [] e = "gas" -> ExpectedGas(r)
    [] e = "helmet" -> ExpectedHelmet(r)

\* C10: whichever elements the page lacks, no handler's promise is
\* rejected, and a successful poll response is rendered into each of the
\* reading elements the page has.
C10_AbsentElementDisablesFeature ==
  /\ [](escaped = {})
  /\ [][\A i \in DOMAIN polls : \A r \in Readings :
          (polls[i].status = 200 /\ PollJsonSettles(i, ReadingBody(r)))
            => \A e \in ReadingIds \cap DOMAIN text :
                 text'[e] = Expected(e, r)]_vars

\* A request later than i has been rendered.
LaterRendered(i) == \E a \in DOMAIN log : log[a].id > i

\* Request i can still be answered.
CanSettle(i) ==
  \/ \E out \in FetchOutcomes : ENABLED PollFetchSettles(i, out)
  \/ \E body \in PollBodies : ENABLED PollJsonSettles(i, body)

\* C11: nothing orders poll responses.  A request stays answerable after a
\* later request has been rendered, and its reading, handled then, replaces
\* the newer one on the page.
C11_StaleResponseOverwrites ==
  /\ [](\A i \in DOMAIN polls :
          polls[i].stage # "done" /\ LaterRendered(i) => CanSettle(i))
  /\ [][\A i \in DOMAIN polls : \A r \in Readings :
          (/\ HasReadingElements
           /\ LaterRendered(i)
           /\ PollJsonSettles(i, ReadingBody(r)))
            => Shows(text', r)]_vars

\* The second request was rendered first; the page shows the reading of
\* the first request, rendered after it.
C11_Witness ==
  /\ HasReadingElements
  /\ log = <<Entry(2, ReadingBody(Reading2)), Entry(1, ReadingBody(Reading1))>>
  /\ Shows(text, Reading1)

\* The status a /run_ai body is expected to leave.
ResultText(body) ==
  CASE body = SuccessBody(0)
         -> "U+2705 Detection Complete! Helmet Violations: 0"
    [] body = SuccessBody(30)
         -> "U+2705 Detection Complete! Helmet Violations: 3"
    [] body \in {ErrorBody(st, "camera offline") : st \in OtherStatuses}
         -> "U+274C Error: camera offline"
    [] body = ErrorNoMessage -> "U+274C Error: undefined"
    [] body \in {Malformed, Null, SuccessNoData}
         -> "U+26A0 Cannot connect to backend."

\* C12: a click is accepted while /run_ai requests are in flight and adds
\* one more to them, and the status is what the response handled last
\* wrote, whichever request it answers.
C12_ClicksOverlap ==
  /\ [](InFlight(runs) # {} /\ clicks < MaxClicks
          /\ {"runAI", "aiStatus"} \subseteq page => ENABLED Click)
  /\ [][(clicks' = clicks + 1 /\ InFlight(runs) # {})
          => /\ runs' = Append(runs, Fetching)
             /\ InFlight(runs') = InFlight(runs) \cup {Len(runs) + 1}]_vars
  /\ [][\A i \in DOMAIN runs :
          runs'[i] # runs[i]
            => /\ \A body \in RunBodies :
                    RunJsonSettles(i, body)
                      => text'["aiStatus"] = ResultText(body)
               /\ RunFetchSettles(i, NetworkError)
                    => text'["aiStatus"] = "U+26A0 Cannot connect to backend."]_vars

\* Two requests were in flight; the second was answered first and the
\* status is its answer, with the first still in flight.
C12_Witness ==
  /\ Len(runs) = 2
  /\ runs[1].stage # "done"
  /\ runs[2].stage = "done"
  /\ text["aiStatus"] = "U+2705 Detection Complete! Helmet Violations: 3"

\* C13: every click issues exactly one /run_ai request and nothing else
\* issues one: the requests issued are as many as the clicks.
C13_OneRequestPerClick == Len(runs) = clicks

\* C15: the writes of one poll response are one step.  Whenever liveData
\* shows a reading, each of temp, gas and helmet the page has shows the
\* same reading; and temp, gas and helmet never show values of two
\* different readings.
C15_RenderIsAtomic ==
  /\ \A r \in Readings :
       ("liveData" \in DOMAIN text /\ text["liveData"] = ExpectedLive(r))
         => \A e \in ReadingIds \cap DOMAIN text : text[e] = Expected(e, r)
  /\ HasReadingElements
       => \A r \in Readings :
            (\E e \in {"temp", "gas", "helmet"} : text[e] = Expected(e, r))
              => \A e \in {"temp", "gas", "helmet"} : text[e] = Expected(e, r)

\* Two poll responses with different readings have been rendered, the
\* second while a /run_ai request was in flight, and the page shows the
\* second reading in all four elements.
C15_Witness ==
  /\ Len(log) = 2
  /\ log[1].data = ReadingBody(Reading1)
  /\ log[2].data = ReadingBody(Reading2)
  /\ InFlight(runs) # {}
  /\ Shows(text, Reading2)

\* C14: rendering keeps nothing of what was shown before.  On a page with
\* the four reading elements, temp, gas and helmet show the reading that
\* was rendered last and liveData shows it or the placeholder, whatever was
\* rendered or failed earlier; and rendering a reading the page already
\* shows changes no text.
C14_RenderIsIdempotentAndHistoryFree ==
  /\ [](\A r \in Readings :
          (/\ HasReadingElements
           /\ log # <<>>
           /\ log[Len(log)].data = ReadingBody(r))
            => /\ \A e \in {"temp", "gas", "helmet"} : text[e] = Expected(e, r)
               /\ text["liveData"] \in {ExpectedLive(r), NoLiveDataText})
  /\ [][\A i \in DOMAIN polls : \A r \in Readings :
          (/\ HasReadingElements
           /\ Shows(text, r)
           /\ PollJsonSettles(i, ReadingBody(r)))
            => text' = text]_vars

\* The same reading has been rendered twice in a row, and the page shows
\* it.
C14_Witness ==
  /\ HasReadingElements
  /\ Len(log) = 2
  /\ log[1].data = ReadingBody(Reading2)
  /\ log[2].data = ReadingBody(Reading2)
  /\ Shows(text, Reading2)

\* The three texts a handled /run_ai request leaves.
FinalTexts ==
  {"U+2705 Detection Complete! Helmet Violations: 0",
   "U+2705 Detection Complete! Helmet Violations: 3",
   "U+274C Error: camera offline",
   "U+274C Error: undefined",
   "U+26A0 Cannot connect to backend."}

\* There has been a click, no /run_ai request is in flight, and the status
\* is a final text.
Settled ==
  /\ clicks >= 1
  /\ InFlight(runs) = {}
  /\ "aiStatus" \in DOMAIN text
  /\ text["aiStatus"] \in FinalTexts

\* With no request in flight after a click, the status is a final text.
FinalWhenIdle ==
  (clicks >= 1 /\ InFlight(runs) = {} /\ "aiStatus" \in DOMAIN text)
    => text["aiStatus"] \in FinalTexts

\* A step that issues no /run_ai request.
NoNewRequest == InFlight(runs') \subseteq InFlight(runs)

\* C16 as stated: with no request in flight after a click the status is a
\* final text, and, every request settling in the end, each click is
\* eventually followed by such a state.
C16_EveryClickSettles ==
  /\ []FinalWhenIdle
  /\ (InFlight(runs) # {}) ~> Settled

\* C16: with no request in flight after a click the status is a final
\* text; and, every request settling in the end, each click is eventually
\* followed by such a state provided the clicks stop at some point.
C16_ClicksSettleOnceTheyStop ==
  /\ []FinalWhenIdle
  /\ <>[][NoNewRequest]_vars => ((InFlight(runs) # {}) ~> Settled)

\* Both requests of two overlapping clicks have been answered, the last
\* with an error.
C16_Witness ==
  /\ clicks = 2
  /\ runs = <<Done, Done>>
  /\ text["aiStatus"] = "U+274C Error: camera offline"

\* C17: once the toggle has been clicked, the stored theme is "dark"
\* exactly when the body has the class dark, exactly when the toggle shows
\* the sun, and "light" with the moon otherwise; and what a click leaves is
\* what the click two before it left.
C17_ThemeStateAgrees ==
  /\ theme.toggles >= 1
       => /\ theme.stored = "dark" <=> theme.dark
          /\ theme.dark <=> theme.icon = "U+2600"
          /\ ~theme.dark => theme.stored = "light" /\ theme.icon = "U+1F319"
  /\ \A n \in DOMAIN theme.after :
       /\ theme.after[n].dark <=> theme.after[n].stored = "dark"
       /\ n >= 3 => theme.after[n] = theme.after[n - 2]

\* On a page that started dark from the preference with nothing stored,
\* three clicks have left it light, with "light" stored and the moon shown.
C17_Witness ==
  /\ theme.toggles = 3
  /\ theme.prefersDark
  /\ ~theme.dark
  /\ theme.stored = "light"
  /\ theme.icon = "U+1F319"
  /\ theme.after[1] = theme.after[3]

====
